---- MODULE Spec2Model ----
(***************************************************************************)
(* Model of ocaml_bot.py: a Telegram bot that keeps one OCaml shell per    *)
(* chat.  The main loop receives updates, creates the shell and the two    *)
(* threads of a chat (readResult, sendAnswer), and dispatches /kill and    *)
(* /ml commands; chatTimeoutKiller destroys inactive chats.                *)
(*                                                                         *)
(* Texts are sequences of one-character strings.  A chat status (the inner *)
(* dictionary of `chats`) is an object: `sess` is the heap of these        *)
(* objects in creation order and `chats` maps a chat id to the object      *)
(* currently registered under it (0: the key is absent).  `proc` is the    *)
(* heap of Popen objects in creation order.                                *)
(***************************************************************************)
EXTENDS Integers, Sequences, FiniteSets, TLC

(* ------------------------------ bounds -------------------------------- *)
NumChats   == 2    \* chat ids 1..NumChats
MaxSess    == 2    \* chat status objects ever created
MaxProc    == 3    \* Popen objects ever created
MaxUpdates == 2    \* updates received by the main loop
MaxTime    == 1    \* time.time() takes the values 0..MaxTime

(* ------------------------- program constants -------------------------- *)
TIMEOUT     == 0   \* _TIMEOUT, as set by --timeout=0
HISTORY_LEN == 20

ChatIds == 1..NumChats
Threads == {"main", "reaper"}
NL == "\n"

VARIABLES
    chats,        \* the `chats` dictionary: chat id -> object in sess, 0 if absent
    sess,         \* chat status objects: _ID _PIPE _MSG _COND _HIST _LAST
    proc,         \* Popen objects: state, bytes written to stdin, stdout pipe
    p,            \* the module-level name `p` (0 before the first Popen)
    chatsLock,    \* "free" or the thread holding it
    lastUpdateId, \* update counter of the main loop
    now,          \* time.time()
    pc,           \* position of the main thread and of chatTimeoutKiller
    upd,          \* main loop: chatId and msg of the update being processed
    ev,           \* evaluate(): locals s and p
    cc,           \* clearChat(): locals chatId and chat, per calling thread
    inact,        \* chatTimeoutKiller: the rest of the list `inact`
    rd,           \* readResult threads, one per created chat object
    fl,           \* sendAnswer threads, one per created chat object
    sent,         \* texts delivered by sendMessage, per chat id
    appended,     \* per chat object: every line added to _MSG, in order
    drained,      \* per chat object: every line taken out of _MSG, in order
    recorded,     \* per chat object: every command added to _HIST, in order
    swept,        \* the chat objects listed by the latest sweep
    net           \* "up", or "down" while requests.post raises

vars == <<chats, sess, proc, p, chatsLock, lastUpdateId, now, pc, upd, ev, cc,
          inact, rd, fl, sent, appended, drained, recorded, swept, net>>

(* ------------------------------ helpers ------------------------------- *)
Range(f) == {f[i] : i \in DOMAIN f}

RECURSIVE Flatten(_)
Flatten(ss) == IF ss = <<>> THEN <<>> ELSE Head(ss) \o Flatten(Tail(ss))


Max(S) == CHOOSE x \in S : \A y \in S : y <= x
Min(S) == CHOOSE x \in S : \A y \in S : x <= y

(* --------------------- the hazard filter (regex) ---------------------- *)
\* \s of Python's re
WhiteSpace == {" ", "\t", "\n", "\r", "\f"}

\* The alternatives of the group of `hazard`, in the order of the pattern;
\* a character class [Ss] is two alternatives, and hash marks the alternatives
\* that start with #\s*.
Tokens == <<
    [hash |-> FALSE, word |-> <<"S", "y", "s">>],
    [hash |-> FALSE, word |-> <<"s", "y", "s">>],
    [hash |-> FALSE, word |-> <<"U", "n", "i", "x">>],
    [hash |-> FALSE, word |-> <<"u", "n", "i", "x">>],
    [hash |-> FALSE, word |-> <<"S", "t", "r", "e", "a", "m">>],
    [hash |-> FALSE, word |-> <<"s", "t", "r", "e", "a", "m">>],
    [hash |-> FALSE, word |-> <<"f", "o", "r", "k">>],
    [hash |-> FALSE, word |-> <<"e", "x", "e", "c">>],
    [hash |-> TRUE, word |-> <<"c", "d">>],
    [hash |-> TRUE, word |-> <<"d", "i", "r", "e", "c", "t", "o", "r", "y">>],
    [hash |-> TRUE, word |-> <<"i", "n", "s", "t", "a", "l", "l", "_", "p", "r", "i", "n", "t", "e", "r">>],
    [hash |-> FALSE, word |-> <<"f", "p", "r", "i", "n", "t", "f">>],
    [hash |-> FALSE, word |-> <<"i", "n", "p", "u", "t", "_", "f", "i", "l", "e">>],
    [hash |-> FALSE, word |-> <<"o", "u", "t", "p", "u", "t", "_", "f", "i", "l", "e">>],
    [hash |-> FALSE, word |-> <<"o", "p", "e", "n", "_", "i", "n">>],
    [hash |-> FALSE, word |-> <<"o", "p", "e", "n", "_", "o", "u", "t">>] >>

\* Number of whitespace characters of msg from position j on (the greedy \s*).
RECURSIVE WsRun(_, _)
WsRun(msg, j) ==
    IF j <= Len(msg) /\ msg[j] \in WhiteSpace THEN 1 + WsRun(msg, j + 1) ELSE 0

\* Length of the match of one alternative at position i of msg, 0 if none.
TokenMatchAt(tok, msg, i) ==
    LET w == tok.word IN
    IF tok.hash
    THEN IF i <= Len(msg) /\ msg[i] = "#"
         THEN LET k == WsRun(msg, i + 1) IN
              IF i + k + Len(w) <= Len(msg)
                 /\ SubSeq(msg, i + 1 + k, i + k + Len(w)) = w
              THEN 1 + k + Len(w) ELSE 0
         ELSE 0
    ELSE IF i + Len(w) - 1 <= Len(msg) /\ SubSeq(msg, i, i + Len(w) - 1) = w
         THEN Len(w) ELSE 0

\* Positions the leading .* of the pattern can reach from the start of msg:
\* the dot does not match a newline and match() is anchored at position 1.
DotStarReach(msg) ==
    {i \in 1..Len(msg) : \A j \in 1..(i - 1) : msg[j] # NL}

\* hazard.match(msg).group(1), or <<>> when match() returns None.  The leading
\* .* is greedy, so the group starts at the last position that gives a match.
hazard(msg) ==
    LET starts == {i \in DotStarReach(msg) :
                     \E t \in DOMAIN Tokens : TokenMatchAt(Tokens[t], msg, i) > 0}
    IN  IF starts = {} THEN <<>>
        ELSE LET i == Max(starts)
                 t == Min({u \in DOMAIN Tokens : TokenMatchAt(Tokens[u], msg, i) > 0})
             IN  SubSeq(msg, i, i + TokenMatchAt(Tokens[t], msg, i) - 1)

(* ------------------------------ objects ------------------------------- *)
\* Popen(...): a running shell with empty pipes.  owner is the chat object it
\* was opened for; cause is the line whose failed write made evaluate open it;
\* by records, for each write to stdin, the kind of update it was made for.
Popen(owner, cause) ==
    [state |-> "alive", stdin |-> <<>>, out |-> <<>>, nout |-> 0, by |-> <<>>,
     owner |-> owner, cause |-> cause]

\* The chat status dictionary built by the main loop.
NewChat(chatId, pipe, t) ==
    [id |-> chatId, pipe |-> pipe, msg |-> <<>>, cond |-> FALSE,
     hist |-> <<>>, last |-> t]

NoUpd == [chatId |-> 0, kind |-> "none", text |-> <<>>, n |-> 0]
NoEv  == [s |-> <<>>, p |-> 0]
NoCc  == [chatId |-> 0, chat |-> 0]

Init ==
    /\ chats = [c \in ChatIds |-> 0]
    /\ sess = <<>>
    /\ proc = <<>>
    /\ p = 0
    /\ chatsLock = "free"
    /\ lastUpdateId = 0
    /\ now = 0
    /\ pc = [t \in Threads |-> IF t = "main" THEN "poll" ELSE "sleep"]
    /\ upd = NoUpd
    /\ ev = NoEv
    /\ cc = [t \in Threads |-> NoCc]
    /\ inact = <<>>
    /\ rd = <<>>
    /\ fl = <<>>
    /\ sent = [c \in ChatIds |-> <<>>]
    /\ appended = <<>>
    /\ drained = <<>>
    /\ recorded = <<>>
    /\ swept = {}
    /\ net = "up"

(* --------------------------- the main loop ---------------------------- *)
\* Updates the main Spec feeds to the main loop: /kill, /ml with a payload, and
\* /hist with a number (int(histMatch.group(1)) is never negative).
MaxIndex == 2
Payloads == { <<"1">>, <<"S", "y", "s">> }
Updates ==
    {[kind |-> "kill", text |-> <<>>, n |-> 0]}
        \cup {[kind |-> "ml", text |-> t, n |-> 0] : t \in Payloads}
        \cup {[kind |-> "hist", text |-> <<>>, n |-> i] : i \in 0..MaxIndex}

\* One update is taken from the result of getUpdates; under chatsLock the shell,
\* the chat object and its two threads are created if the chat id is not a key
\* of `chats`, and _LAST is set.  The Popen object is bound to the module-level
\* name `p`.
Receive(c, u) ==
    /\ pc["main"] = "poll"
    /\ chatsLock = "free"
    /\ lastUpdateId' = lastUpdateId + 1
    /\ upd' = [chatId |-> c, kind |-> u.kind, text |-> u.text, n |-> u.n]
    /\ pc' = [pc EXCEPT !["main"] = "dispatch"]
    /\ IF chats[c] = 0
       THEN /\ Len(sess) < MaxSess
            /\ Len(proc) < MaxProc
            /\ proc' = Append(proc, Popen(Len(sess) + 1, <<>>))
            /\ p' = Len(proc) + 1
            /\ sess' = Append(sess, NewChat(c, Len(proc) + 1, now))
            /\ chats' = [chats EXCEPT ![c] = Len(sess) + 1]
            /\ rd' = Append(rd, [pc |-> "bind", chatId |-> c, f |-> 0, line |-> <<>>])
            /\ fl' = Append(fl, [pc |-> "drain", chatId |-> c, msg |-> <<>>])
            /\ appended' = Append(appended, <<>>)
            /\ drained' = Append(drained, <<>>)
            /\ recorded' = Append(recorded, <<>>)
       ELSE /\ sess' = [sess EXCEPT ![chats[c]].last = now]
            /\ UNCHANGED <<proc, p, chats, rd, fl, appended, drained, recorded>>
    /\ UNCHANGED <<net, chatsLock, now, ev, cc, inact, sent, swept>>

\* The same update when Popen raises (OSError: the shell cannot be started):
\* the exception leaves the main loop between chatsLock.acquire() and
\* chatsLock.release(), and nothing catches it.
ReceiveSpawnFails(c, u) ==
    /\ pc["main"] = "poll"
    /\ chatsLock = "free"
    /\ chats[c] = 0
    /\ lastUpdateId' = lastUpdateId + 1
    /\ upd' = [chatId |-> c, kind |-> u.kind, text |-> u.text, n |-> u.n]
    /\ chatsLock' = "main"
    /\ pc' = [pc EXCEPT !["main"] = "crashed"]
    /\ UNCHANGED <<net, chats, sess, proc, p, now, ev, cc, inact, rd, fl, sent,
                   appended, drained, recorded, swept>>

\* `if match:` after hazard.match(msg).
ForbiddenNever(msg) == FALSE

ForbiddenDirective(msg) == hazard(msg) # <<>> /\ Head(hazard(msg)) = "#"

Forbidden(msg) == hazard(msg) # <<>>

\* requests.post of sendMessage returns: sendMessage returns only then.
Delivered == net = "up"

\* The reply of the hazard filter: the text is built from match.group(1).
HazardReply(token) == [kind |-> "forbidden", token |-> token]

\* Dispatch of the update: /kill calls clearChat; /hist with a number calls
\* runFromHistory; an /ml payload goes through the hazard filter and is either
\* answered with the forbidden identifier or passed to evaluate.
Dispatch ==
    /\ pc["main"] = "dispatch"
    /\ IF upd.kind = "kill"
       THEN /\ cc' = [cc EXCEPT !["main"] = [chatId |-> upd.chatId, chat |-> 0]]
            /\ pc' = [pc EXCEPT !["main"] = "cc_get"]
            /\ upd' = NoUpd
            /\ UNCHANGED <<ev, sent>>
       ELSE IF upd.kind = "hist"
       THEN /\ pc' = [pc EXCEPT !["main"] = "rh_get"]
            /\ UNCHANGED <<upd, ev, cc, sent>>
       ELSE IF Forbidden(upd.text)
       THEN /\ Delivered
            /\ sent' = [sent EXCEPT ![upd.chatId] =
                            Append(@, HazardReply(hazard(upd.text)))]
            /\ pc' = [pc EXCEPT !["main"] = "poll"]
            /\ upd' = NoUpd
            /\ UNCHANGED <<ev, cc>>
       ELSE /\ ev' = [s |-> upd.text, p |-> 0]
            /\ pc' = [pc EXCEPT !["main"] = "ev_hist"]
            /\ UNCHANGED <<upd, cc, sent>>
    /\ UNCHANGED <<net, chats, sess, proc, p, chatsLock, lastUpdateId, now, inact,
                   rd, fl, appended, drained, recorded, swept>>

(* -------------------------- runFromHistory ---------------------------- *)
\* list[i] of Python: a negative i counts from the end of the list.
PyInRange(h, i) == -Len(h) <= i /\ i < Len(h)
PyItem(h, i) == IF i >= 0 THEN h[i + 1] ELSE h[Len(h) + i + 1]

\* The index runFromHistory subscripts the history with.
HistIndex(index) == index - 1

\* Under chatsLock, command = chats[chatId][_HIST][index - 1]; a KeyError or an
\* IndexError is logged and the function returns; otherwise the command goes
\* to evaluate.  After the return the message matches no /ml instruction.
RunFromHistory ==
    /\ pc["main"] = "rh_get"
    /\ chatsLock = "free"
    /\ IF chats[upd.chatId] = 0
       THEN /\ pc' = [pc EXCEPT !["main"] = "poll"]
            /\ upd' = NoUpd
            /\ UNCHANGED ev
       ELSE IF ~PyInRange(sess[chats[upd.chatId]].hist, HistIndex(upd.n))
       THEN /\ pc' = [pc EXCEPT !["main"] = "poll"]
            /\ upd' = NoUpd
            /\ UNCHANGED ev
       ELSE /\ ev' = [s |-> PyItem(sess[chats[upd.chatId]].hist, HistIndex(upd.n)),
                      p |-> 0]
            /\ pc' = [pc EXCEPT !["main"] = "ev_hist"]
            /\ UNCHANGED upd
    /\ UNCHANGED <<net, chats, sess, proc, p, chatsLock, lastUpdateId, now, cc, inact,
                   rd, fl, sent, appended, drained, recorded, swept>>

(* ----------------------------- evaluate ------------------------------- *)
RemoveAt(h, i) == SubSeq(h, 1, i - 1) \o SubSeq(h, i + 1, Len(h))

\* hist.insert(0, s), then pop(HISTORY_LEN) while the list is longer.
RECURSIVE HistTrim(_)
HistTrim(h) ==
    IF Len(h) > HISTORY_LEN THEN HistTrim(RemoveAt(h, HISTORY_LEN + 1)) ELSE h

HistInsertPopNewest(h, s) ==
    IF Len(h) + 1 > HISTORY_LEN THEN h ELSE <<s>> \o h

HistInsert(h, s) == HistTrim(<<s>> \o h)

\* The bytes of the first write: (s + "\n").
FirstWrite(s) == Append(s, NL)

\* The bytes written to the new shell after a BrokenPipeError: s.encode('utf-8').
Resend(s) == s

\* evaluate, first block: under chatsLock read _PIPE and add s to the history;
\* a KeyError returns.
EvaluateRecord ==
    /\ pc["main"] = "ev_hist"
    /\ chatsLock = "free"
    /\ IF chats[upd.chatId] = 0
       THEN /\ pc' = [pc EXCEPT !["main"] = "poll"]
            /\ ev' = NoEv
            /\ upd' = NoUpd
            /\ UNCHANGED <<sess, recorded>>
       ELSE /\ ev' = [ev EXCEPT !.p = sess[chats[upd.chatId]].pipe]
            /\ sess' = [sess EXCEPT ![chats[upd.chatId]].hist = HistInsert(@, ev.s)]
            /\ recorded' = [recorded EXCEPT ![chats[upd.chatId]] = Append(@, ev.s)]
            /\ pc' = [pc EXCEPT !["main"] = "ev_write"]
            /\ UNCHANGED upd
    /\ UNCHANGED <<net, chats, proc, p, chatsLock, lastUpdateId, now, cc, inact,
                   rd, fl, sent, appended, drained, swept>>

\* evaluate, the write: to a live shell it delivers the line; to a dead one it
\* raises BrokenPipeError and a new shell is opened (local p of evaluate).
EvaluateWrite ==
    /\ pc["main"] = "ev_write"
    /\ IF proc[ev.p].state = "alive"
       THEN /\ proc' = [proc EXCEPT ![ev.p].stdin = Append(@, FirstWrite(ev.s)),
                                    ![ev.p].by = Append(@, upd.kind)]
            /\ pc' = [pc EXCEPT !["main"] = "poll"]
            /\ ev' = NoEv
            /\ upd' = NoUpd
       ELSE /\ Len(proc) < MaxProc
            /\ proc' = Append(proc, Popen(0, FirstWrite(ev.s)))
            /\ ev' = [ev EXCEPT !.p = Len(proc) + 1]
            /\ pc' = [pc EXCEPT !["main"] = "ev_update"]
            /\ UNCHANGED upd
    /\ UNCHANGED <<net, chats, sess, p, chatsLock, lastUpdateId, now, cc, inact,
                   rd, fl, sent, appended, drained, recorded, swept>>

\* evaluate, the Popen of the except clause raises (OSError): the exception
\* leaves evaluate and the main loop.
EvaluateRespawnFails ==
    /\ pc["main"] = "ev_write"
    /\ proc[ev.p].state # "alive"
    /\ pc' = [pc EXCEPT !["main"] = "crashed"]
    /\ UNCHANGED <<net, chats, sess, proc, p, chatsLock, lastUpdateId, now, upd, ev,
                   cc, inact, rd, fl, sent, appended, drained, recorded, swept>>

\* evaluate, "update dictionary": chatsLock is acquired and chats[chatId][_PIPE]
\* is set; a KeyError leaves the function with the lock still held.
EvaluateUpdate ==
    /\ pc["main"] = "ev_update"
    /\ chatsLock = "free"
    /\ IF chats[upd.chatId] = 0
       THEN /\ chatsLock' = "main"
            /\ pc' = [pc EXCEPT !["main"] = "crashed"]
            /\ UNCHANGED <<sess, proc>>
       ELSE /\ sess' = [sess EXCEPT ![chats[upd.chatId]].pipe = ev.p]
            /\ proc' = [proc EXCEPT ![ev.p].owner = chats[upd.chatId]]
            /\ pc' = [pc EXCEPT !["main"] = "ev_resend"]
            /\ UNCHANGED chatsLock
    /\ UNCHANGED <<net, chats, p, lastUpdateId, now, upd, ev, cc, inact,
                   rd, fl, sent, appended, drained, recorded, swept>>

\* evaluate, "resend command to the shell": outside any try.
EvaluateResend ==
    /\ pc["main"] = "ev_resend"
    /\ IF proc[ev.p].state = "alive"
       THEN /\ proc' = [proc EXCEPT ![ev.p].stdin = Append(@, Resend(ev.s)),
                                    ![ev.p].by = Append(@, upd.kind)]
            /\ pc' = [pc EXCEPT !["main"] = "poll"]
            /\ ev' = NoEv
            /\ upd' = NoUpd
       ELSE /\ pc' = [pc EXCEPT !["main"] = "crashed"]
            /\ UNCHANGED <<proc, ev, upd>>
    /\ UNCHANGED <<net, chats, sess, p, chatsLock, lastUpdateId, now, cc, inact,
                   rd, fl, sent, appended, drained, recorded, swept>>

(* ----------------------------- clearChat ------------------------------ *)
\* Where clearChat returns to: the main loop polls again; chatTimeoutKiller
\* goes on with the next chat of `inact` (clearChat(chat[_ID])) or sleeps.
ReturnFromClear(t) ==
    IF t = "reaper" /\ inact # <<>>
    THEN /\ cc' = [cc EXCEPT ![t] = [chatId |-> sess[Head(inact)].id, chat |-> 0]]
         /\ inact' = Tail(inact)
         /\ pc' = [pc EXCEPT ![t] = "cc_get"]
    ELSE /\ cc' = [cc EXCEPT ![t] = NoCc]
         /\ pc' = [pc EXCEPT ![t] = IF t = "main" THEN "poll" ELSE "sleep"]
         /\ UNCHANGED inact

\* chat = chats[chatId] under chatsLock; a KeyError returns.
ClearChatGet(t) ==
    /\ pc[t] = "cc_get"
    /\ chatsLock = "free"
    /\ IF chats[cc[t].chatId] = 0
       THEN ReturnFromClear(t)
       ELSE /\ cc' = [cc EXCEPT ![t].chat = chats[cc[t].chatId]]
            /\ pc' = [pc EXCEPT ![t] = "cc_kill"]
            /\ UNCHANGED inact
    /\ UNCHANGED <<net, chats, sess, proc, p, chatsLock, lastUpdateId, now, upd, ev,
                   rd, fl, sent, appended, drained, recorded, swept>>

\* os.killpg(p.pid, SIGTERM) and p.wait (SIGKILL if the wait times out): the
\* shell is dead and reaped.  killpg on a process group that was already
\* reaped raises ProcessLookupError, which nothing catches.
ClearChatKill(t) ==
    /\ pc[t] = "cc_kill"
    /\ IF proc[sess[cc[t].chat].pipe].state = "reaped"
       THEN /\ pc' = [pc EXCEPT ![t] = "crashed"]
            /\ UNCHANGED proc
       ELSE /\ proc' = [proc EXCEPT ![sess[cc[t].chat].pipe].state = "reaped"]
            /\ pc' = [pc EXCEPT ![t] = "cc_cond"]
    /\ UNCHANGED <<net, chats, sess, p, chatsLock, lastUpdateId, now, upd, ev, cc,
                   inact, rd, fl, sent, appended, drained, recorded, swept>>

\* chat[_COND] = True; the joins that follow wait at most 2 seconds each and
\* clearChat goes on whether or not the threads have ended.
ClearChatCond(t) ==
    /\ pc[t] = "cc_cond"
    /\ sess' = [sess EXCEPT ![cc[t].chat].cond = TRUE]
    /\ pc' = [pc EXCEPT ![t] = "cc_pop"]
    /\ UNCHANGED <<net, chats, proc, p, chatsLock, lastUpdateId, now, upd, ev, cc,
                   inact, rd, fl, sent, appended, drained, recorded, swept>>

\* chats.pop(chatId, None) under chatsLock.
ClearChatPop(t) ==
    /\ pc[t] = "cc_pop"
    /\ chatsLock = "free"
    /\ chats' = [chats EXCEPT ![cc[t].chatId] = 0]
    /\ ReturnFromClear(t)
    /\ UNCHANGED <<net, sess, proc, p, chatsLock, lastUpdateId, now, upd, ev,
                   rd, fl, sent, appended, drained, recorded, swept>>

(* ------------------------- chatTimeoutKiller -------------------------- *)
\* The chat objects of `chats` with t - c[_LAST] > _TIMEOUT, in the order of the
\* dictionary (the order in which the objects were created).
Inactive ==
    SelectSeq([x \in 1..Len(sess) |-> x],
              LAMBDA x : chats[sess[x].id] = x /\ now - sess[x].last > TIMEOUT)

\* One sweep starts: the list is taken under chatsLock, and the loop over it
\* calls clearChat for the first chat.
Sweep ==
    /\ pc["reaper"] = "sleep"
    /\ chatsLock = "free"
    /\ Inactive # <<>>
    /\ cc' = [cc EXCEPT !["reaper"] = [chatId |-> sess[Head(Inactive)].id, chat |-> 0]]
    /\ inact' = Tail(Inactive)
    /\ pc' = [pc EXCEPT !["reaper"] = "cc_get"]
    /\ swept' = Range(Inactive)
    /\ UNCHANGED <<net, chats, sess, proc, p, chatsLock, lastUpdateId, now, upd, ev,
                   rd, fl, sent, appended, drained, recorded>>

\* time.time() advances.
Tick ==
    /\ now < MaxTime
    /\ now' = now + 1
    /\ UNCHANGED <<net, chats, sess, proc, p, chatsLock, lastUpdateId, pc, upd, ev, cc,
                   inact, rd, fl, sent, appended, drained, recorded, swept>>

(* ------------------------------ the shell ----------------------------- *)
\* Number of complete lines in the bytes written to a shell's stdin.
RECURSIVE CountNL(_)
CountNL(s) ==
    IF s = <<>> THEN 0 ELSE (IF Head(s) = NL THEN 1 ELSE 0) + CountNL(Tail(s))

CompleteLines(q) == CountNL(Flatten(proc[q].stdin))

\* A running shell answers a complete input line with one line on its stdout.
ShellOutput(q) ==
    /\ proc[q].state = "alive"
    /\ proc[q].nout < CompleteLines(q)
    /\ proc' = [proc EXCEPT ![q].out = Append(@, [src |-> q, n |-> proc[q].nout + 1]),
                            ![q].nout = @ + 1]
    /\ UNCHANGED <<net, chats, sess, p, chatsLock, lastUpdateId, now, pc, upd, ev, cc,
                   inact, rd, fl, sent, appended, drained, recorded, swept>>

\* A running shell ends by itself (the evaluated code exits or crashes it).
ShellExit(q) ==
    /\ proc[q].state = "alive"
    /\ proc' = [proc EXCEPT ![q].state = "zombie"]
    /\ UNCHANGED <<net, chats, sess, p, chatsLock, lastUpdateId, now, pc, upd, ev, cc,
                   inact, rd, fl, sent, appended, drained, recorded, swept>>

(* ----------------------------- readResult ----------------------------- *)
\* The stream a reader thread reads: the expression p.stdout, with the
\* module-level p (readResult has no local or parameter p).
ReaderStream(x) == p

\* `p.stdout.readline` is evaluated: the thread is now reading that stream.
ReadBind(x) ==
    /\ rd[x].pc = "bind"
    /\ rd' = [rd EXCEPT ![x].f = ReaderStream(x), ![x].pc = "read"]
    /\ UNCHANGED <<net, chats, sess, proc, p, chatsLock, lastUpdateId, now, pc, upd,
                   ev, cc, inact, fl, sent, appended, drained, recorded, swept>>

\* readline returns: the next line of the stream, or the empty string once the
\* shell is gone and the pipe is empty; it blocks otherwise.
ReadLine(x) ==
    /\ rd[x].pc = "read"
    /\ IF proc[rd[x].f].out # <<>>
       THEN /\ rd' = [rd EXCEPT ![x].line = <<Head(proc[rd[x].f].out)>>,
                                ![x].pc = "store"]
            /\ proc' = [proc EXCEPT ![rd[x].f].out = Tail(@)]
       ELSE /\ proc[rd[x].f].state # "alive"
            /\ rd' = [rd EXCEPT ![x].line = <<>>, ![x].pc = "store"]
            /\ UNCHANGED proc
    /\ UNCHANGED <<net, chats, sess, p, chatsLock, lastUpdateId, now, pc, upd,
                   ev, cc, inact, fl, sent, appended, drained, recorded, swept>>

\* _MSG after the reader's update.
AddLine(text, line) == text \o line

\* Under chatsLock and the chat's _LOCK: return if _COND, else add the line to
\* _MSG.  A missing key raises KeyError, which is logged, and the loop goes on.
ReadStore(x) ==
    /\ rd[x].pc = "store"
    /\ chatsLock = "free"
    /\ LET y == chats[rd[x].chatId] IN
       IF y = 0
       THEN /\ rd' = [rd EXCEPT ![x].pc = "bind", ![x].f = 0, ![x].line = <<>>]
            /\ UNCHANGED <<sess, appended>>
       ELSE IF sess[y].cond
       THEN /\ rd' = [rd EXCEPT ![x].pc = "exited", ![x].f = 0, ![x].line = <<>>]
            /\ UNCHANGED <<sess, appended>>
       ELSE /\ sess' = [sess EXCEPT ![y].msg = AddLine(@, rd[x].line)]
            /\ appended' = [appended EXCEPT ![y] = @ \o rd[x].line]
            /\ rd' = [rd EXCEPT ![x].pc = "bind", ![x].f = 0, ![x].line = <<>>]
    /\ UNCHANGED <<net, chats, proc, p, chatsLock, lastUpdateId, now, pc, upd,
                   ev, cc, inact, fl, sent, drained, recorded, swept>>

(* ----------------------------- sendAnswer ----------------------------- *)
\* _MSG after the sender has read it.
ClearedKept(text) == text

Cleared(text) == <<>>

\* Under chatsLock and the chat's _LOCK: return if _COND, else take _MSG and
\* clear it.  A missing key raises KeyError, which ends the thread.
FlushDrain(x) ==
    /\ fl[x].pc = "drain"
    /\ chatsLock = "free"
    /\ LET y == chats[fl[x].chatId] IN
       IF y = 0
       THEN /\ fl' = [fl EXCEPT ![x].pc = "dead"]
            /\ UNCHANGED <<sess, drained>>
       ELSE IF sess[y].cond
       THEN /\ fl' = [fl EXCEPT ![x].pc = "exited"]
            /\ UNCHANGED <<sess, drained>>
       ELSE /\ sess[y].msg # <<>>
            /\ fl' = [fl EXCEPT ![x].msg = sess[y].msg, ![x].pc = "send"]
            /\ sess' = [sess EXCEPT ![y].msg = Cleared(@)]
            /\ drained' = [drained EXCEPT ![y] = @ \o sess[y].msg]
    /\ UNCHANGED <<net, chats, proc, p, chatsLock, lastUpdateId, now, pc, upd,
                   ev, cc, inact, rd, sent, appended, recorded, swept>>

\* sendMessage(chatId, msg) for a non-empty msg, then the sleep.
FlushSend(x) ==
    /\ fl[x].pc = "send"
    /\ Delivered
    /\ sent' = [sent EXCEPT ![fl[x].chatId] = Append(@, [kind |-> "out", text |-> fl[x].msg])]
    /\ fl' = [fl EXCEPT ![x].msg = <<>>, ![x].pc = "drain"]
    /\ UNCHANGED <<net, chats, sess, proc, p, chatsLock, lastUpdateId, now, pc, upd,
                   ev, cc, inact, rd, appended, drained, recorded, swept>>

\* requests.post raises: the except clause of sendMessage logs, sleeps and
\* calls sendMessage again; the sender thread stays inside that call.
SendRetry(x) ==
    /\ fl[x].pc = "send"
    /\ ~Delivered
    /\ UNCHANGED vars

(* --------------------------- specification ---------------------------- *)
Next ==
    \/ \E c \in ChatIds, u \in Updates : lastUpdateId < MaxUpdates /\ Receive(c, u)
    \/ \E c \in ChatIds, u \in Updates :
          lastUpdateId < MaxUpdates /\ ReceiveSpawnFails(c, u)
    \/ Dispatch
    \/ RunFromHistory
    \/ EvaluateRecord
    \/ EvaluateWrite
    \/ EvaluateRespawnFails
    \/ EvaluateUpdate
    \/ EvaluateResend
    \/ \E t \in Threads : ClearChatGet(t)
    \/ \E t \in Threads : ClearChatKill(t)
    \/ \E t \in Threads : ClearChatCond(t)
    \/ \E t \in Threads : ClearChatPop(t)
    \/ Sweep
    \/ Tick
    \/ \E q \in 1..Len(proc) : ShellOutput(q)
    \/ \E q \in 1..Len(proc) : ShellExit(q)
    \/ \E x \in 1..Len(rd) : ReadBind(x)
    \/ \E x \in 1..Len(rd) : ReadLine(x)
    \/ \E x \in 1..Len(rd) : ReadStore(x)
    \/ \E x \in 1..Len(fl) : FlushDrain(x)
    \/ \E x \in 1..Len(fl) : FlushSend(x)

Spec == Init /\ [][Next]_vars

(* ------------------ the hazard filter on all payloads ----------------- *)
MaxPayloadLen == 4
SanAlphabet == {"S", "y", "s", "#", "c", "d", " ", NL}
SanPayloads == UNION {[1..k -> SanAlphabet] : k \in 0..MaxPayloadLen}

\* The first update is /ml with any payload over the alphabet.
ReceiveSan ==
    \E t \in SanPayloads :
        lastUpdateId = 0 /\ Receive(1, [kind |-> "ml", text |-> t, n |-> 0])

NextSan == ReceiveSan \/ Dispatch \/ EvaluateRecord \/ EvaluateWrite

SpecSan == Init /\ [][NextSan]_vars

(* ------------------------ long command histories ---------------------- *)
MaxHistUpdates == 23
Digit == <<"0", "1", "2", "3", "4", "5", "6", "7", "8", "9">>
Numeral(k) == <<Digit[(k \div 10) + 1], Digit[(k % 10) + 1]>>

\* The number of the next command of chat c: its commands are numbered.
NextCmdNo(c) == IF chats[c] = 0 THEN 1 ELSE Len(recorded[chats[c]]) + 1

\* Every update is /ml with the number of the command as its payload.
ReceiveHist ==
    \E c \in ChatIds :
        /\ lastUpdateId < MaxHistUpdates
        /\ Receive(c, [kind |-> "ml", text |-> Numeral(NextCmdNo(c)), n |-> 0])

NextHist == ReceiveHist \/ Dispatch \/ EvaluateRecord \/ EvaluateWrite

SpecHist == Init /\ [][NextHist]_vars

(* ------------------------ replays from the history ------------------- *)
MaxReplayUpdates == 4

\* An update is /hist with a number up to one past the longest history.
ReceiveReplay ==
    \E c \in ChatIds, i \in 0..(MaxIndex + 1) :
        /\ lastUpdateId < MaxReplayUpdates
        /\ Receive(c, [kind |-> "hist", text |-> <<>>, n |-> i])

NextReplay ==
    \/ (lastUpdateId < MaxReplayUpdates /\ ReceiveHist)
    \/ ReceiveReplay
    \/ Dispatch
    \/ RunFromHistory
    \/ EvaluateRecord
    \/ EvaluateWrite

SpecReplay == Init /\ [][NextReplay]_vars

(* ------------------------ a failing transport ------------------------ *)
MaxNetUpdates == 2

\* The connection to the server is lost, and comes back.
NetDown ==
    /\ net = "up"
    /\ net' = "down"
    /\ UNCHANGED <<chats, sess, proc, p, chatsLock, lastUpdateId, now, pc, upd,
                   ev, cc, inact, rd, fl, sent, appended, drained, recorded, swept>>

NetUp ==
    /\ net = "down"
    /\ net' = "up"
    /\ UNCHANGED <<chats, sess, proc, p, chatsLock, lastUpdateId, now, pc, upd,
                   ev, cc, inact, rd, fl, sent, appended, drained, recorded, swept>>

\* getUpdates returns an update only while the connection is up.
ReceiveNet ==
    \E c \in ChatIds :
        /\ lastUpdateId < MaxNetUpdates
        /\ net = "up"
        /\ Receive(c, [kind |-> "ml", text |-> <<"1">>, n |-> 0])

NextNet ==
    \/ ReceiveNet
    \/ Dispatch
    \/ EvaluateRecord
    \/ EvaluateWrite
    \/ \E q \in 1..Len(proc) : ShellOutput(q)
    \/ \E x \in 1..Len(rd) : ReadBind(x)
    \/ \E x \in 1..Len(rd) : ReadLine(x)
    \/ \E x \in 1..Len(rd) : ReadStore(x)
    \/ \E x \in 1..Len(fl) : FlushDrain(x)
    \/ \E x \in 1..Len(fl) : FlushSend(x)
    \/ \E x \in 1..Len(fl) : SendRetry(x)
    \/ NetDown
    \/ NetUp

\* Every sender thread that can take a step eventually takes it, and a send
\* that is retried while the connection is up again and again gets through.
FairSenders ==
    \A x \in 1..MaxSess :
        /\ WF_vars(x <= Len(fl) /\ FlushDrain(x))
        /\ SF_vars(x <= Len(fl) /\ FlushSend(x))
        /\ WF_vars(x <= Len(fl) /\ SendRetry(x))

SpecNet == Init /\ [][NextNet]_vars /\ FairSenders

(* ------------------------------- claims ------------------------------- *)
Registered(y) == chats[sess[y].id] = y

\* C1 (session isolation): the reader thread started for a chat object reads
\* only the stdout of a shell opened for that object, every line added to the
\* _MSG of a chat object was produced by a shell opened for that object, and no
\* two reader threads read the same shell.
C1_SessionIsolation ==
    /\ \A x \in 1..Len(rd) :
          rd[x].pc \in {"read", "store"} => proc[rd[x].f].owner = x
    /\ \A y \in 1..Len(sess) : \A i \in 1..Len(appended[y]) :
          proc[appended[y][i].src].owner = y
    /\ \A x1, x2 \in 1..Len(rd) :
          (x1 # x2 /\ rd[x1].pc = "read" /\ rd[x2].pc = "read") => rd[x1].f # rd[x2].f

\* C2 (no output lost or duplicated between reader and sender): for every chat
\* object, the lines taken out of _MSG so far followed by the current _MSG are
\* exactly the lines added to _MSG so far, in the order they were added.
C2_NoLossNoDuplication ==
    \A y \in 1..Len(sess) : drained[y] \o sess[y].msg = appended[y]

\* C2 witness: a chat object from which text has been taken while newer text is
\* already waiting in _MSG.
C2_Witness ==
    \E y \in 1..Len(sess) :
        /\ drained[y] # <<>>
        /\ sess[y].msg # <<>>
        /\ Len(appended[y]) >= 2

\* C3 (the sender delivers before it exits): whenever a sendAnswer thread ends on
\* seeing _COND, the _MSG of the chat it serves is empty, so no text added
\* before the termination is left undelivered.
C3_FlushDeliversBeforeExit ==
    [][\A x \in 1..Len(fl) :
          (fl[x].pc = "drain" /\ fl'[x].pc = "exited")
              => sess[chats[fl[x].chatId]].msg = <<>>]_vars


\* The reference predicate of C4: some alternative of the deny list occurs
\* somewhere in the payload.
ContainsToken(msg) ==
    \E i \in 1..Len(msg), t \in DOMAIN Tokens : TokenMatchAt(Tokens[t], msg, i) > 0

\* C4 (the sanitizer decides "contains a deny-listed token"): an /ml payload is
\* rejected by the main loop exactly when a deny-listed token occurs in it at
\* some position, also behind a line break.
C4_SanitizerMatchesReference ==
    (pc["main"] = "dispatch" /\ upd.kind = "ml")
        => (Forbidden(upd.text) <=> ContainsToken(upd.text))

\* C5 (a rejected payload stops at the filter): the step of the main loop that
\* handles an /ml payload matched by the hazard filter sends the offending token
\* as the reply and goes back to polling; no shell, no chat object (handle,
\* buffer, history) and no history log changes, and evaluate is not entered.
C5_HazardStops ==
    [][(/\ pc["main"] = "dispatch"
        /\ upd.kind = "ml"
        /\ hazard(upd.text) # <<>>
        /\ pc'["main"] # "dispatch")
          => (/\ pc'["main"] = "poll"
              /\ upd' = NoUpd
              /\ ev' = ev
              /\ sent' = [sent EXCEPT ![upd.chatId] =
                             Append(@, HazardReply(hazard(upd.text)))]
              /\ proc' = proc
              /\ sess' = sess
              /\ recorded' = recorded)]_vars

\* C5 witness: the reply with the token Sys has been sent to a chat whose shell
\* has received nothing and whose history is empty, and the main loop polls.
C5_Witness ==
    /\ pc["main"] = "poll"
    /\ \E c \in ChatIds :
        /\ chats[c] # 0
        /\ \E i \in 1..Len(sent[c]) : sent[c][i] = HazardReply(<<"S", "y", "s">>)
        /\ sess[chats[c]].hist = <<>>
        /\ proc[sess[chats[c]].pipe].stdin = <<>>

\* C6 (the resend carries the failed line): the first bytes a shell opened after
\* a BrokenPipeError receives are the line whose write failed, newline included.
C6_ResendSameLine ==
    \A q \in 1..Len(proc) :
        (proc[q].cause # <<>> /\ proc[q].stdin # <<>>)
            => proc[q].stdin[1] = proc[q].cause

\* C7 (a reader is bound to the respawned shell): once evaluate has returned, a
\* live shell that evaluate opened and stored in a registered chat is the stream
\* of some running readResult thread.
C7_ReaderBoundAfterRespawn ==
    pc["main"] = "poll" =>
        \A y \in 1..Len(sess) :
            (/\ Registered(y)
             /\ ~sess[y].cond
             /\ proc[sess[y].pipe].cause # <<>>
             /\ proc[sess[y].pipe].state = "alive")
                => \E x \in 1..Len(rd) :
                      rd[x].pc # "exited" /\ ReaderStream(x) = sess[y].pipe

\* C8 (every sweep tears down the chats it found inactive): chatTimeoutKiller
\* never dies, and when it is back to sleeping every chat object its latest sweep
\* listed has _COND set, a terminated shell and is no longer registered.
C8_SweepTearsDownIdle ==
    /\ pc["reaper"] # "crashed"
    /\ pc["reaper"] = "sleep" =>
          \A y \in swept :
              /\ sess[y].cond
              /\ proc[sess[y].pipe].state = "reaped"
              /\ ~Registered(y)

\* A chat object that clearChat has finished with: _COND set, key removed.
Killed(y) == sess[y].cond /\ ~Registered(y)

\* C9 (after /kill the chat starts afresh): with no sweep of chatTimeoutKiller
\* involved, the shell of a killed chat object has been terminated, and a chat
\* object registered under a chat id is served only by its own two threads: the
\* threads started for earlier objects of that id have ended.
C9_KillThenBrandNew ==
    swept = {} =>
        \A y \in 1..Len(sess) :
            /\ Killed(y) => proc[sess[y].pipe].state = "reaped"
            /\ Registered(y) =>
                  \A x \in 1..Len(rd) :
                      (x # y /\ rd[x].chatId = sess[y].id)
                          => (rd[x].pc = "exited" /\ fl[x].pc \in {"exited", "dead"})

\* The last n entries of log, newest first.
NewestFirst(log, n) ==
    [i \in 1..Min({n, Len(log)}) |-> log[Len(log) - i + 1]]

\* C10 (bounded history, newest first): the history of every chat object holds
\* the latest HISTORY_LEN commands recorded for it, newest first, and never
\* more; once more than HISTORY_LEN commands have been recorded the first one
\* is at no index.
C10_HistoryBounded ==
    \A y \in 1..Len(sess) :
        /\ Len(sess[y].hist) <= HISTORY_LEN
        /\ sess[y].hist = NewestFirst(recorded[y], HISTORY_LEN)
        /\ Len(recorded[y]) > HISTORY_LEN
              => \A i \in 1..Len(sess[y].hist) : sess[y].hist[i] # recorded[y][1]

\* C10 witness: HISTORY_LEN + 1 commands recorded for one chat object.
C10_Witness ==
    \E y \in 1..Len(sess) :
        /\ Len(recorded[y]) = HISTORY_LEN + 1
        /\ Len(sess[y].hist) = HISTORY_LEN

\* C11 (replay): runFromHistory with index n of a registered chat passes to
\* evaluate exactly the entry at one-based, newest-first position n when
\* 1 <= n <= len(history); with n = 0 or n beyond the length it returns with
\* the chat objects and the shells unchanged and nothing passed to evaluate.
C11_ReplayIndex ==
    [][ (/\ pc["main"] = "rh_get"
         /\ pc'["main"] # "rh_get"
         /\ chats[upd.chatId] # 0)
        => LET h == sess[chats[upd.chatId]].hist
           IN  IF 1 <= upd.n /\ upd.n <= Len(h)
               THEN pc'["main"] = "ev_hist" /\ ev'.s = h[upd.n]
               ELSE pc'["main"] = "poll" /\ sess' = sess /\ proc' = proc ]_vars

\* C12 (a failing teardown does not end chatTimeoutKiller): from the killpg of
\* clearChat the reaper thread goes on with that clearChat, or, the failure
\* caught, to the next chat of its sweep or back to sleeping; it never dies.
C12_TeardownFailureCaught ==
    [][ pc["reaper"] = "cc_kill"
        => pc'["reaper"] \in {"cc_kill", "cc_cond", "cc_get", "sleep"} ]_vars

\* C13 (a pipe error never ends the main loop): from the write of evaluate and
\* from the resend to the shell opened after a BrokenPipeError, the main
\* thread goes on with evaluate or returns to polling; it never dies.
C13_PipeErrorKeepsIngesting ==
    [][ pc["main"] \in {"ev_write", "ev_resend"}
        => pc'["main"] \in {"ev_write", "ev_update", "ev_resend", "poll"} ]_vars

\* C14 (the sender is not held by a failing transport): a sender thread that
\* is inside sendMessage eventually leaves it and is at its next read of the
\* message buffer, where it also tests _COND.
C14_FlushNotBlocked ==
    \A x \in 1..MaxSess :
        (x <= Len(fl) /\ fl[x].pc = "send") ~> (x <= Len(fl) /\ fl[x].pc = "drain")

\* The reader thread x has met what ends it: readline returned the empty
\* string (end of file), or its chat id is no longer a key, or _COND is set.
ReaderMustStop(x) ==
    \/ rd[x].line = <<>>
    \/ chats[rd[x].chatId] = 0
    \/ sess[chats[rd[x].chatId]].cond

\* C15 (the reader stops): a reader thread that has a completed read in hand
\* and finds end of file, its chat removed from `chats`, or _COND set, ends
\* with that iteration instead of going back to read.
C15_ReaderStops ==
    [][ \A x \in 1..Len(rd) :
            (rd[x].pc = "store" /\ rd'[x].pc # "store" /\ ReaderMustStop(x))
                => rd'[x].pc = "exited" ]_vars

\* A chat object in use: registered and not being torn down.
Live(y) == Registered(y) /\ ~sess[y].cond

\* The running threads that look up the chat id of chat object y.
ReadersOf(y) ==
    {x \in 1..Len(rd) : rd[x].chatId = sess[y].id /\ rd[x].pc # "exited"}

SendersOf(y) ==
    {x \in 1..Len(fl) : fl[x].chatId = sess[y].id /\ fl[x].pc \notin {"exited", "dead"}}

\* C16 (one reader and one sender per chat): every chat object in use is
\* served by exactly one running readResult thread and exactly one running
\* sendAnswer thread; no thread started for an earlier object of the same
\* chat id is still running on it.
C16_OneReaderOneSender ==
    \A y \in 1..Len(sess) :
        Live(y) => (Cardinality(ReadersOf(y)) = 1 /\ Cardinality(SendersOf(y)) = 1)

\* The registered chat objects whose _PIPE is the Popen object q.
HoldersOf(q) == {y \in 1..Len(sess) : Registered(y) /\ sess[y].pipe = q}

\* C17 (no orphaned shell, no chat without threads): whenever the main loop
\* is between two updates and chatTimeoutKiller between two sweeps, every
\* running shell is the _PIPE of exactly one registered chat object, and
\* every registered chat object has a running reader and a running sender.
C17_NoOrphanProcess ==
    (pc["main"] = "poll" /\ pc["reaper"] = "sleep") =>
        /\ \A q \in 1..Len(proc) :
              proc[q].state = "alive" => Cardinality(HoldersOf(q)) = 1
        /\ \A y \in 1..Len(sess) :
              Registered(y) => (ReadersOf(y) # {} /\ SendersOf(y) # {})

\* C18 (chatsLock is always released): no thread leaves a critical section,
\* by an exception included, with chatsLock still held: the lock is never
\* held by a thread that has ended, which would block every other thread at
\* its next acquire.
C18_LockReleased == \A t \in Threads : pc[t] = "crashed" => chatsLock # t

\* C19 (only idle chats are reaped): when clearChat called by
\* chatTimeoutKiller terminates the shell of a chat object, that object is one
\* the sweep listed as inactive and it is still inactive at that moment.
C19_ReapsOnlyIdle ==
    [][ (pc["reaper"] = "cc_kill" /\ pc'["reaper"] = "cc_cond")
        => (/\ cc["reaper"].chat \in swept
            /\ now - sess[cc["reaper"].chat].last > TIMEOUT) ]_vars

\* Every command recorded for a chat object, in the history or no longer.
Accepted == UNION {Range(recorded[y]) : y \in 1..Len(recorded)}

\* C20 (only filtered texts reach a shell): every entry of every history, and
\* every command ever recorded, is a text on which the hazard filter finds no
\* match; every write to a shell, for /ml or for /hist, carries such a text,
\* as the first write or as the resend of evaluate.
C20_OnlyFilteredTexts ==
    /\ \A t \in Accepted : hazard(t) = <<>>
    /\ \A y \in 1..Len(sess) : Range(sess[y].hist) \subseteq Accepted
    /\ \A q \in 1..Len(proc) :
          \A k \in 1..Len(proc[q].stdin) :
              \E t \in Accepted : proc[q].stdin[k] \in {FirstWrite(t), Resend(t)}

\* A shell has received a command for /ml and a command for /hist.
C20_Witness ==
    \E q \in 1..Len(proc) :
        /\ "ml" \in Range(proc[q].by)
        /\ "hist" \in Range(proc[q].by)

====
